---- MODULE Spec2Model ----
(***************************************************************************)
(* Model of the nuclio platform client (class Dashboard) and of the        *)
(* deploy command.  One behaviour is one top-level call: deploy,           *)
(* createFunction, invokeFunction, deleteProject or deleteFunction.  Every *)
(* action is the code that runs between two suspension points (await) of   *)
(* the async functions; HTTP requests in flight and the pending timer are  *)
(* part of the state, and the backend's answers are nondeterministic.      *)
(***************************************************************************)
EXTENDS Naturals, Sequences, FiniteSets

\* ---------------------------------------------------------------- bounds
\* most entries a deployed directory holds
MaxFiles == 3

\* ------------------------------------------------------ program constants
retryIntervalMs == 1000
maxRetries == 60

ProjectNameLabel == "nuclio.io/project-name"

\* ------------------------------------------------------------- JS values
\* A JS object with string values is the sequence of its <<key, value>>
\* pairs in insertion order; an optional object is [present, entries].
NoObj == [present |-> FALSE, entries |-> <<>>]
Obj(pairs) == [present |-> TRUE, entries |-> pairs]

\* an optional string
NoStr == [present |-> FALSE, s |-> ""]
Str(x) == [present |-> TRUE, s |-> x]

HasKey(pairs, k) == \E i \in 1..Len(pairs) : pairs[i][1] = k
GetKey(pairs, k) == pairs[CHOOSE i \in 1..Len(pairs) : pairs[i][1] = k][2]

\* obj[k] = v : an existing key keeps its place and gets the new value, a new
\* key is added last
SetKey(pairs, k, v) ==
    IF HasKey(pairs, k)
    THEN [i \in 1..Len(pairs) |-> IF pairs[i][1] = k THEN <<k, v>> ELSE pairs[i]]
    ELSE Append(pairs, <<k, v>>)

\* ------------------------------------------------------------ FunctionConfig
\* metadata.name, metadata.namespace, metadata.labels and
\* spec.build.functionSourceCode of a FunctionConfig
Config(name, namespace, labels, code) ==
    [name |-> name, namespace |-> namespace, labels |-> labels,
     functionSourceCode |-> code]

NoConfig == Config("", "", NoObj, NoStr)

\* JSON.stringify(functionConfig): the text is a snapshot, taken when it is
\* called, of the leaves of the object in insertion order, each a
\* <<path, value>>; a property whose value is undefined is left out, an empty
\* object is written "{}".
StringifyLabels(labels) ==
    IF ~labels.present THEN <<>>
    ELSE IF labels.entries = <<>> THEN << <<<<"metadata", "labels">>, "{}">> >>
    ELSE [i \in 1..Len(labels.entries) |->
            << <<"metadata", "labels", labels.entries[i][1]>>, labels.entries[i][2] >>]

Stringify(cfg) ==
    << <<<<"metadata", "name">>, cfg.name>>,
       <<<<"metadata", "namespace">>, cfg.namespace>> >>
    \o StringifyLabels(cfg.labels)
    \o (IF cfg.functionSourceCode.present
        THEN << <<<<"spec", "build", "functionSourceCode">>, cfg.functionSourceCode.s>> >>
        ELSE <<>>)

\* JSON.stringify(resource) of deleteResource: a fresh record that carries
\* metadata.name and metadata.namespace only
StringifyResource(name, namespace) ==
    << <<<<"metadata", "name">>, name>>,
       <<<<"metadata", "namespace">>, namespace>> >>

\* ------------------------------------------------------------------ axios
\* A request on the wire: verb, url (path segments after the base url),
\* request headers, and body.  The body is [kind, text, json, config]:
\* kind "none" (no body), "value" (an opaque payload), "json" (a JSON text),
\* "config" (an object {headers: ...} serialised as the body).
NoData == [kind |-> "none", text |-> "", json |-> <<>>, config |-> <<>>]
ValueData(v) == IF v.present THEN [NoData EXCEPT !.kind = "value", !.text = v.s] ELSE NoData
JsonData(j) == [NoData EXCEPT !.kind = "json", !.json = j]
ConfigData(h) == [NoData EXCEPT !.kind = "config", !.config = h]

Request(method, url, headers, data) ==
    [method |-> method, url |-> url, headers |-> headers, data |-> data]

\* the verbs axios gives the signature (url, data, config)
DataVerbs == {"post", "put", "patch"}
\* the verbs axios gives the signature (url, config)
NoDataVerbs == {"get", "delete", "head", "options"}
AxiosVerbs == DataVerbs \cup NoDataVerbs

\* axios[method](url, a2, a3).  For a verb of signature (url, data, config)
\* the second argument is the body and the third the config; for a verb of
\* signature (url, config) the second argument is the config, whose data (if
\* any) is the body.  An argument is a value (an optional string), a JSON
\* text, a config object {headers: ..., data: ...} or absent.
ArgAbsent == [kind |-> "absent", v |-> NoStr, headers |-> <<>>, json |-> <<>>]
ArgValue(v) == [ArgAbsent EXCEPT !.kind = "value", !.v = v]
ArgJson(j) == [ArgAbsent EXCEPT !.kind = "json", !.json = j]
ArgConfig(h, j) == [ArgAbsent EXCEPT !.kind = "config", !.headers = h, !.json = j]

ArgAsData(a) ==
    IF a.kind = "value" THEN ValueData(a.v)
    ELSE IF a.kind = "json" THEN JsonData(a.json)
    ELSE IF a.kind = "config" THEN ConfigData(a.headers)
    ELSE NoData

ConfigHeaders(a) == IF a.kind = "config" THEN a.headers ELSE <<>>
ConfigBody(a) == IF a.kind = "config" /\ a.json # <<>> THEN JsonData(a.json) ELSE NoData

AxiosCall(method, url, a2, a3) ==
    IF method \in DataVerbs
    THEN Request(method, url, ConfigHeaders(a3), ArgAsData(a2))
    ELSE Request(method, url, ConfigHeaders(a2), ConfigBody(a2))

\* ----------------------------------------------------------------- errors
\* A thrown error: its class and its message, the message in the parts the
\* template literal joins.
NoError == [name |-> "", message |-> <<>>]
Error(name, message) == [name |-> name, message |-> message]

\* the rejection of an axios promise
TransportError == Error("TransportError", <<"request failed">>)

\* what a call settles with: still pending, a returned function record (the
\* poll attempt it came from and its status), undefined, or a thrown error
Pending ==
    [kind |-> "pending", error |-> NoError, attempt |-> 0, state |-> "",
     message |-> "", statusCode |-> 0]
Returned(fn) == [Pending EXCEPT !.kind = "value", !.attempt = fn.attempt,
                                !.state = fn.status.state, !.message = fn.status.message]
ReturnedUndefined == [Pending EXCEPT !.kind = "undefined"]
Thrown(e) == [Pending EXCEPT !.kind = "error", !.error = e]

\* ----------------------------------------------------------------- inputs
ProjectNames == {"p1", "p2"}
Namespace == "nuclio"
FunctionName == "f1"

\* metadata.labels a caller passes: absent, empty, other labels only, the
\* project label of another or of the same project, alone or among others
LabelInputs ==
    { NoObj,
      Obj(<<>>),
      Obj(<< <<"app", "x">> >>),
      Obj(<< <<ProjectNameLabel, "p2">> >>),
      Obj(<< <<"app", "x">>, <<ProjectNameLabel, "p2">>, <<"tier", "y">> >>) }

\* what the backend may answer to a readiness read: the request fails, or
\* the function's record comes back with status.state ready, error or
\* anything else, or with no status object at all
Messages == {"build failed", "image pull failed"}

\* ------------------------------------------------------------------ state
VARIABLES
    op,             \* the top-level call of this behaviour
    pc,             \* the await the call is suspended at, "idle" or "done"
    dir,            \* deploy: the entries readdirSync returned
    projectName,    \* createFunction: its first argument
    functionConfig, \* createFunction: the object passed, mutated in place
    id,             \* invoke/delete: the resource identifier
    options,        \* invokeFunction: its options
    retryIdx,       \* createFunction: the loop counter
    inflight,       \* the HTTP requests dispatched and not yet answered
    timer,          \* the delay of the pending setTimeout, 0 when none
    calls,          \* requests dispatched so far, by purpose
    result,         \* what the client call settled with
    deployed,       \* deploy: "" while running, then "resolved" or "rejected"
    channel,        \* the lines appended to the output channel
    notifications,  \* the messages shown by showInformationMessage
    seen,           \* history: the poll outcomes observed so far
    lastOutcome,    \* history: the outcome of the latest poll, "" before it
    createOk,       \* history: the create request was answered with success
    passed,         \* history: functionConfig as createFunction received it
    firstTerminal   \* history: the first poll result with state ready or error

vars == <<op, pc, dir, projectName, functionConfig, id, options, retryIdx,
          inflight, timer, calls, result, deployed, channel, notifications,
          seen, lastOutcome, createOk,
                   passed, firstTerminal>>

NoId == [namespace |-> "", name |-> NoStr]
NoOptions == [method |-> "", headers |-> NoObj, body |-> NoStr, via |-> NoStr, path |-> NoStr]
NoTerminal == [attempt |-> 0, state |-> "", message |-> ""]
NoCalls == [create |-> 0, poll |-> 0, invoke |-> 0, delete |-> 0]

Init ==
    /\ op = "none"
    /\ pc = "idle"
    /\ dir = <<>>
    /\ projectName = ""
    /\ functionConfig = NoConfig
    /\ id = NoId
    /\ options = NoOptions
    /\ retryIdx = 0
    /\ inflight = {}
    /\ timer = 0
    /\ calls = NoCalls
    /\ result = Pending
    /\ deployed = ""
    /\ channel = <<>>
    /\ notifications = <<>>
    /\ seen = {}
    /\ lastOutcome = ""
    /\ createOk = FALSE
    /\ passed = NoConfig
    /\ firstTerminal = NoTerminal

\* ---------------------------------------------------------- getResources
NoFilter == [namespace |-> "", name |-> NoStr, projectName |-> NoStr]

\* `x-nuclio-${resourceName}-namespace`
NamespaceHeader(resourceName) ==
    IF resourceName = "function" THEN "x-nuclio-function-namespace"
    ELSE "x-nuclio-project-namespace"

\* `/api/${resourceName}s`
ResourcesPath(resourceName) ==
    IF resourceName = "function" THEN <<"api", "functions">> ELSE <<"api", "projects">>

\* the request getResources dispatches: the namespace goes into a header,
\* the name (when given) onto the path
GetResourcesRequest(filter, resourceName, headers) ==
    AxiosCall("get",
              IF filter.name.present
              THEN Append(ResourcesPath(resourceName), filter.name.s)
              ELSE ResourcesPath(resourceName),
              ArgConfig(SetKey(headers, NamespaceHeader(resourceName), filter.namespace), <<>>),
              ArgAbsent)

\* the request getFunctions dispatches
GetFunctionsRequest(filter) ==
    GetResourcesRequest(filter, "function",
                        IF filter.projectName.present
                        THEN SetKey(<<>>, "x-nuclio-project-name", filter.projectName.s)
                        ELSE <<>>)

\* what getResources returns for a filter with a name: the single entity of
\* the response wrapped in an array.  A record that comes without a status
\* object leaves status unset.
Status(state, message) == [present |-> TRUE, state |-> state, message |-> message]
NoStatus == [present |-> FALSE, state |-> "", message |-> ""]
FunctionRecord(attempt, status) == [attempt |-> attempt, status |-> status]
GetResourcesResult(fn) == <<fn>>

\* --------------------------------------------------------- createFunction
\* faulty variant: a project label that is already there is kept
SetProjectLabelUnlessPresent(pn, cfg) ==
    [cfg EXCEPT !.labels =
        IF cfg.labels.present /\ HasKey(cfg.labels.entries, ProjectNameLabel)
        THEN cfg.labels
        ELSE Obj(SetKey(IF cfg.labels.present THEN cfg.labels.entries ELSE <<>>,
                        ProjectNameLabel, pn))]

\* create labels if not created and set the project name label
SetProjectLabel(pn, cfg) ==
    [cfg EXCEPT !.labels =
        Obj(SetKey(IF cfg.labels.present THEN cfg.labels.entries ELSE <<>>,
                   ProjectNameLabel, pn))]

\* create function by posting function config
CreateRequest(cfg) ==
    AxiosCall("post", <<"api", "functions">>, ArgJson(Stringify(cfg)), ArgAbsent)

\* the readiness read of one loop iteration
PollRequest(cfg) ==
    GetFunctionsRequest([NoFilter EXCEPT !.name = Str(cfg.name), !.namespace = cfg.namespace])

\* faulty variant: one iteration too many
LoopContinuesInclusive(idx) == idx <= maxRetries

\* the loop condition
LoopContinues(idx) == idx < maxRetries

CreationFailed(message) == Error("Error", <<"Creation failed: ", message>>)
\* reading .state of a status that is not an object
StatusTypeError == Error("TypeError", <<"Cannot read property 'state'">>)

\* the loop body after the read: what it does with createdFunctionConfig
\* (the array read, empty when the read failed): return its first element,
\* throw, or go on to the sleep
Sleep == [act |-> "sleep", res |-> Pending]
Settles(res) == [act |-> "settle", res |-> res]

\* faulty variant: any state but "error" counts as ready
LoopBodyAnyState(created) ==
    IF Len(created) # 0
    THEN IF ~created[1].status.present THEN Settles(Thrown(StatusTypeError))
         ELSE IF created[1].status.state = "error"
              THEN Settles(Thrown(CreationFailed(created[1].status.message)))
         ELSE Settles(Returned(created[1]))
    ELSE Sleep

\* faulty variant: the error state is not looked at
LoopBodyNoErrorCheck(created) ==
    IF Len(created) # 0
    THEN IF ~created[1].status.present THEN Settles(Thrown(StatusTypeError))
         ELSE IF created[1].status.state = "ready" THEN Settles(Returned(created[1]))
         ELSE Sleep
    ELSE Sleep

LoopBody(created) ==
    IF Len(created) # 0
    THEN IF ~created[1].status.present THEN Settles(Thrown(StatusTypeError))
         ELSE IF created[1].status.state = "ready" THEN Settles(Returned(created[1]))
         ELSE IF created[1].status.state = "error"
              THEN Settles(Thrown(CreationFailed(created[1].status.message)))
         ELSE Sleep
    ELSE Sleep

\* --------------------------------------------------------------- settling
SuccessMessage == "Function deployed successfully"

\* createFunction settles and, when deploy awaits it, deploy goes on: it
\* reports after a resolution and rejects after a rejection
Settle(res) ==
    /\ result' = res
    /\ pc' = "done"
    /\ IF op = "deploy"
       THEN IF res.kind = "error"
            THEN /\ deployed' = "rejected"
                 /\ UNCHANGED <<channel, notifications>>
            ELSE /\ deployed' = "resolved"
                 /\ notifications' = Append(notifications, SuccessMessage)
                 /\ channel' = Append(channel, SuccessMessage)
       ELSE UNCHANGED <<deployed, channel, notifications>>

\* the top of the for loop with counter idx: the next readiness read is
\* dispatched, or the loop ends and the function returns nothing
LoopTop(idx, answered) ==
    /\ retryIdx' = idx
    /\ IF LoopContinues(idx)
       THEN /\ inflight' = (inflight \ answered) \cup {PollRequest(functionConfig)}
            /\ calls' = [calls EXCEPT !.poll = @ + 1]
            /\ pc' = "awaitGet"
            /\ UNCHANGED <<result, deployed, channel, notifications>>
       ELSE /\ inflight' = inflight \ answered
            /\ UNCHANGED calls
            /\ Settle(ReturnedUndefined)

\* createFunction up to its first await
CallCreateFunction(pn, cfg) ==
    /\ projectName' = pn
    /\ passed' = cfg
    /\ functionConfig' = SetProjectLabel(pn, cfg)
    /\ inflight' = inflight \cup {CreateRequest(SetProjectLabel(pn, cfg))}
    /\ calls' = [calls EXCEPT !.create = @ + 1]
    /\ pc' = "awaitPost"

CreateFunction(pn, cfg) ==
    /\ pc = "idle"
    /\ op' = "createFunction"
    /\ CallCreateFunction(pn, cfg)
    /\ UNCHANGED <<dir, id, options, retryIdx, timer, result, deployed, channel,
                   notifications, seen, lastOutcome, createOk, firstTerminal>>

\* the create request is answered with success: the loop starts
PostResolves ==
    /\ pc = "awaitPost"
    /\ \E r \in inflight :
         /\ r.method = "post"
         /\ createOk' = TRUE
         /\ LoopTop(0, {r})
    /\ UNCHANGED <<op, dir, projectName, functionConfig, id, options, timer,
                   seen, lastOutcome, passed, firstTerminal>>

\* the create request fails: the rejection leaves createFunction
PostRejects ==
    /\ pc = "awaitPost"
    /\ \E r \in inflight :
         /\ r.method = "post"
         /\ inflight' = inflight \ {r}
    /\ Settle(Thrown(TransportError))
    /\ UNCHANGED <<op, dir, projectName, functionConfig, id, options, retryIdx,
                   timer, calls, seen, lastOutcome, createOk,
                   passed, firstTerminal>>

\* the rest of one loop iteration, the read having given `created`
AfterPoll(created, outcome, answered) ==
    /\ inflight' = inflight \ answered
    /\ seen' = seen \cup {outcome}
    /\ lastOutcome' = outcome
    /\ firstTerminal' =
         IF outcome \in {"ready", "error"} /\ firstTerminal = NoTerminal
         THEN [attempt |-> created[1].attempt, state |-> created[1].status.state,
               message |-> created[1].status.message]
         ELSE firstTerminal
    /\ IF LoopBody(created).act = "settle"
       THEN /\ Settle(LoopBody(created).res)
            /\ UNCHANGED timer
       ELSE /\ timer' = retryIntervalMs
            /\ pc' = "awaitSleep"
            /\ UNCHANGED <<result, deployed, channel, notifications>>
    /\ UNCHANGED <<op, dir, projectName, functionConfig, id, options, retryIdx,
                   calls, createOk, passed>>

OutcomeOf(status) ==
    IF ~status.present THEN "nostatus"
    ELSE IF status.state \in {"ready", "error"} THEN status.state
    ELSE "pending"

\* the readiness read is answered with the function's record
GetResolves(status) ==
    /\ pc = "awaitGet"
    /\ \E r \in inflight :
         /\ r.method = "get"
         /\ AfterPoll(GetResourcesResult(FunctionRecord(calls.poll, status)),
                      OutcomeOf(status), {r})

\* faulty variant: the read is not wrapped in try/catch
GetRejectsPropagates ==
    /\ pc = "awaitGet"
    /\ \E r \in inflight :
         /\ r.method = "get"
         /\ inflight' = inflight \ {r}
    /\ seen' = seen \cup {"fail"}
    /\ lastOutcome' = "fail"
    /\ Settle(Thrown(TransportError))
    /\ UNCHANGED <<op, dir, projectName, functionConfig, id, options, retryIdx,
                   timer, calls, createOk, passed, firstTerminal>>

\* the readiness read fails: the catch block makes it an empty array
GetRejects ==
    /\ pc = "awaitGet"
    /\ \E r \in inflight :
         /\ r.method = "get"
         /\ AfterPoll(<<>>, "fail", {r})

\* the timeout of the sleep fires: retryIdx++ and the loop test
TimerFires ==
    /\ pc = "awaitSleep"
    /\ timer # 0
    /\ timer' = 0
    /\ LoopTop(retryIdx + 1, {})
    /\ UNCHANGED <<op, dir, projectName, functionConfig, id, options, seen,
                   lastOutcome, createOk,
                   passed, firstTerminal>>

\* ------------------------------------------------------------------ deploy
\* A directory entry: its name in the parts split('.') gives, whether
\* reading it succeeds, its text, and (a yaml file) the object it parses to.
File(name, readable, text, config) ==
    [name |-> name, readable |-> readable, text |-> text, config |-> config]

FunctionYaml ==
    File(<<"function", "yaml">>, TRUE, "",
         Config(FunctionName, Namespace,
                Obj(<< <<ProjectNameLabel, "p2">>, <<"app", "x">> >>), Str("c3RhbGU=")))
HandlerPy == File(<<"handler", "py">>, TRUE, "def handler(): pass", NoConfig)
UtilPy == File(<<"util", "py">>, TRUE, "import os", NoConfig)
\* a sub-directory: readFileSync throws on it
LibDir == File(<<"lib">>, FALSE, "", NoConfig)

Files == {FunctionYaml, HandlerPy, UtilPy, LibDir}

\* the listings readdirSync may return: distinct entries in any order
Dirs ==
    {d \in UNION {[1..n -> Files] : n \in 0..MaxFiles} :
        \A i, j \in 1..Len(d) : i # j => d[i] # d[j]}

\* filename.split('.').pop()
getExtension(filename) == filename[Len(filename)]

\* base64.encode of the texts above
Base64Encode(text) ==
    IF text = "def handler(): pass" THEN "ZGVmIGhhbmRsZXIoKTogcGFzcw=="
    ELSE IF text = "import os" THEN "aW1wb3J0IG9z"
    ELSE ""

NoFiles == [configFile |-> [present |-> FALSE, config |-> NoConfig], codeFile |-> NoStr]

\* the body of the forEach callback for one entry: a yaml entry sets
\* configFile, any other entry sets codeFile.  The callback is async, so
\* an exception of a read rejects its promise, which nobody awaits: the
\* variable keeps the value it had.
ReadFile(acc, file) ==
    IF ~file.readable THEN acc
    ELSE IF getExtension(file.name) = "yaml"
    THEN [acc EXCEPT !.configFile = [present |-> TRUE, config |-> file.config]]
    ELSE [acc EXCEPT !.codeFile = Str(Base64Encode(file.text))]

\* readdirSync(...).forEach(...): the entries in order, a later one
\* overwriting what an earlier one set
RECURSIVE ForEachFile(_, _)
ForEachFile(files, acc) ==
    IF files = <<>> THEN acc
    ELSE ForEachFile(Tail(files), ReadFile(acc, Head(files)))

\* configFile.spec.build['functionSourceCode'] = codeFile
AssembleConfig(read) == [read.configFile.config EXCEPT !.functionSourceCode = read.codeFile]

\* deploy up to its await: it reads the directory and calls createFunction,
\* or throws at the assignment to configFile.spec when no yaml file was read
Deploy(d, pn) ==
    /\ pc = "idle"
    /\ op' = "deploy"
    /\ dir' = d
    /\ IF ForEachFile(d, NoFiles).configFile.present
       THEN /\ channel' = channel \o <<"Reading files from directory", "Deploying function...">>
            /\ CallCreateFunction(pn, AssembleConfig(ForEachFile(d, NoFiles)))
            /\ UNCHANGED deployed
       ELSE /\ channel' = Append(channel, "Reading files from directory")
            /\ deployed' = "rejected"
            /\ pc' = "done"
            /\ UNCHANGED <<projectName, functionConfig, inflight, calls, passed>>
    /\ UNCHANGED <<id, options, retryIdx, timer, result, notifications, seen,
                   lastOutcome, createOk, firstTerminal>>

\* ---------------------------------------------------------- invokeFunction
InvocationsPath == <<"api", "function_invocations">>

\* get headers from options or create a new object, then set the nuclio
\* headers on it
InvokeHeaders(i, o) ==
    LET h0 == IF o.headers.present THEN o.headers.entries ELSE <<>>
        h1 == SetKey(h0, "x-nuclio-function-name", i.name.s)
        h2 == SetKey(h1, "x-nuclio-function-namespace", i.namespace)
        h3 == SetKey(h2, "x-nuclio-invoke-via", IF o.via.present THEN o.via.s ELSE "external-ip")
    IN  IF o.path.present THEN SetKey(h3, "x-nuclio-path", o.path.s) ELSE h3

\* the methods the code calls with (url, body, config)
BodyMethods == {"post", "put", "path"}

\* invoke the function by calling the appropriate method on function_invocations
InvokeRequest(method, body, headers) ==
    IF method \in BodyMethods
    THEN AxiosCall(method, InvocationsPath, ArgValue(body), ArgConfig(headers, <<>>))
    ELSE AxiosCall(method, InvocationsPath, ArgConfig(headers, <<>>), ArgAbsent)

NameMissingInInvoke == Error("Error", <<"Function name must be specified in invoke">>)
NameMissingInDelete == Error("Error", <<"Resource name must be specified in delete">>)
\* axios[options.method] is undefined and is called
NotAFunction == Error("TypeError", <<"axiosMethod is not a function">>)

InvokeFunction(i, o) ==
    /\ pc = "idle"
    /\ op' = "invokeFunction"
    /\ id' = i
    /\ options' = o
    /\ IF ~i.name.present
       THEN /\ Settle(Thrown(NameMissingInInvoke))
            /\ UNCHANGED <<inflight, calls>>
       ELSE IF o.method \notin AxiosVerbs
       THEN /\ Settle(Thrown(NotAFunction))
            /\ UNCHANGED <<inflight, calls>>
       ELSE /\ inflight' = inflight \cup {InvokeRequest(o.method, o.body, InvokeHeaders(i, o))}
            /\ calls' = [calls EXCEPT !.invoke = @ + 1]
            /\ pc' = "awaitInvoke"
            /\ UNCHANGED <<result, deployed, channel, notifications>>
    /\ UNCHANGED <<dir, projectName, functionConfig, retryIdx, timer, seen,
                   lastOutcome, createOk,
                   passed, firstTerminal>>

\* the response wrapped into an InvokeResult
InvokeResult(statusCode, data) ==
    [Pending EXCEPT !.kind = "value", !.statusCode = statusCode, !.message = data]

InvokeResolves(statusCode, data) ==
    /\ pc = "awaitInvoke"
    /\ \E r \in inflight : inflight' = inflight \ {r}
    /\ Settle(InvokeResult(statusCode, data))
    /\ UNCHANGED <<op, dir, projectName, functionConfig, id, options, retryIdx,
                   timer, calls, seen, lastOutcome, createOk,
                   passed, firstTerminal>>

InvokeRejects ==
    /\ pc = "awaitInvoke"
    /\ \E r \in inflight : inflight' = inflight \ {r}
    /\ Settle(Thrown(TransportError))
    /\ UNCHANGED <<op, dir, projectName, functionConfig, id, options, retryIdx,
                   timer, calls, seen, lastOutcome, createOk,
                   passed, firstTerminal>>

\* ---------------------------------------------------------- deleteResource
DeleteRequest(i, resourceName) ==
    AxiosCall("delete", ResourcesPath(resourceName),
              ArgConfig(<<>>, StringifyResource(i.name.s, i.namespace)), ArgAbsent)

DeleteResource(i, resourceName) ==
    /\ id' = i
    /\ IF ~i.name.present
       THEN /\ Settle(Thrown(NameMissingInDelete))
            /\ UNCHANGED <<inflight, calls>>
       ELSE /\ inflight' = inflight \cup {DeleteRequest(i, resourceName)}
            /\ calls' = [calls EXCEPT !.delete = @ + 1]
            /\ pc' = "awaitDelete"
            /\ UNCHANGED <<result, deployed, channel, notifications>>
    /\ UNCHANGED <<dir, projectName, functionConfig, options, retryIdx, timer,
                   seen, lastOutcome, createOk,
                   passed, firstTerminal>>

DeleteProject(i) ==
    /\ pc = "idle"
    /\ op' = "deleteProject"
    /\ DeleteResource(i, "project")

DeleteFunction(i) ==
    /\ pc = "idle"
    /\ op' = "deleteFunction"
    /\ DeleteResource(i, "function")

DeleteResolves ==
    /\ pc = "awaitDelete"
    /\ \E r \in inflight : inflight' = inflight \ {r}
    /\ Settle(ReturnedUndefined)
    /\ UNCHANGED <<op, dir, projectName, functionConfig, id, options, retryIdx,
                   timer, calls, seen, lastOutcome, createOk,
                   passed, firstTerminal>>

DeleteRejects ==
    /\ pc = "awaitDelete"
    /\ \E r \in inflight : inflight' = inflight \ {r}
    /\ Settle(Thrown(TransportError))
    /\ UNCHANGED <<op, dir, projectName, functionConfig, id, options, retryIdx,
                   timer, calls, seen, lastOutcome, createOk,
                   passed, firstTerminal>>

\* ------------------------------------------------------------ environment
Ids == {[namespace |-> Namespace, name |-> n] : n \in {NoStr, Str(FunctionName)}}

Methods == AxiosVerbs \cup {"path"}

HeaderInputs ==
    { NoObj,
      Obj(<<>>),
      Obj(<< <<"content-type", "text/plain">> >>),
      Obj(<< <<"x-nuclio-function-name", "other">>, <<"content-type", "text/plain">> >>) }

OptionInputs ==
    [method : Methods, headers : HeaderInputs, body : {NoStr, Str("payload")},
     via : {NoStr, Str("domain-name")}, path : {NoStr, Str("/sub")}]

\* the status objects a backend may send
Statuses ==
    {NoStatus, Status("ready", ""), Status("building", "")}
    \cup {Status("error", m) : m \in Messages}

Next ==
    \/ \E pn \in ProjectNames, l \in LabelInputs :
         CreateFunction(pn, Config(FunctionName, Namespace, l, NoStr))
    \/ \E d \in Dirs, pn \in ProjectNames : Deploy(d, pn)
    \/ \E i \in Ids, o \in OptionInputs : InvokeFunction(i, o)
    \/ \E code \in {200, 500}, data \in {"pong"} : InvokeResolves(code, data)
    \/ InvokeRejects
    \/ \E i \in Ids : DeleteProject(i)
    \/ \E i \in Ids : DeleteFunction(i)
    \/ DeleteResolves
    \/ DeleteRejects
    \/ PostResolves
    \/ PostRejects
    \/ \E st \in Statuses : GetResolves(st)
    \/ GetRejects
    \/ TimerFires

Spec == Init /\ [][Next]_vars

\* Every request is answered in the end and a timeout that was set fires.
LiveSpec ==
    /\ Spec
    /\ WF_vars(PostResolves \/ PostRejects)
    /\ WF_vars(GetRejects \/ \E st \in Statuses : GetResolves(st))
    /\ WF_vars(TimerFires)
    /\ WF_vars(InvokeRejects \/ \E code \in {200, 500}, data \in {"pong"} : InvokeResolves(code, data))
    /\ WF_vars(DeleteResolves \/ DeleteRejects)

\* ============================================================ properties
CreateOps == {"createFunction", "deploy"}
Range(f) == {f[i] : i \in DOMAIN f}

\* the poll loop was entered and every read so far failed or found a
\* non-terminal state
OnlyNonTerminal == createOk /\ seen \subseteq {"fail", "pending"}

\* C1: when every readiness poll yields no terminal state, createFunction
\* makes exactly 60 polling calls and then fails with a Timeout error; it never
\* completes by returning no value.
C1_TimeoutRaised ==
    (op \in CreateOps /\ pc = "done" /\ OnlyNonTerminal) =>
        /\ calls.poll = maxRetries
        /\ result.kind = "error"
        /\ result.error.name = "Timeout"

\* C2: the deploy command reports success (notification and log line) only
\* after a poll result with state "ready" was observed.
C2_SuccessOnlyAfterReady ==
    (SuccessMessage \in Range(notifications) \/ SuccessMessage \in Range(channel)) =>
        "ready" \in seen

\* C3: when the first terminal poll outcome is "ready", at attempt k,
\* createFunction has resolved with the result of attempt k after exactly k <= 60
\* polling calls, nothing is in flight or scheduled afterwards; and a function
\* record is returned only when "ready" was observed.
C3_ReadyExit ==
    /\ firstTerminal.state = "ready" =>
         /\ pc = "done"
         /\ result.kind = "value"
         /\ result.attempt = firstTerminal.attempt
         /\ result.state = "ready"
         /\ calls.poll = firstTerminal.attempt
         /\ firstTerminal.attempt \in 1..maxRetries
         /\ inflight = {}
         /\ timer = 0
    /\ (op \in CreateOps /\ result.kind = "value") =>
         ("ready" \in seen /\ firstTerminal.state = "ready")

\* the polling scenario: not found twice, a pending state, then ready
C3_Witness ==
    /\ op = "createFunction"
    /\ result.kind = "value"
    /\ result.attempt = 4
    /\ seen = {"fail", "pending", "ready"}

\* C4: when a poll returns state "error", createFunction has failed at once
\* with CreationFailed carrying that result's message, and no polling call
\* follows that attempt.
C4_ErrorExit ==
    firstTerminal.state = "error" =>
        /\ pc = "done"
        /\ result.kind = "error"
        /\ result.error.name = "Error"
        /\ result.error.message = <<"Creation failed: ", firstTerminal.message>>
        /\ calls.poll = firstTerminal.attempt
        /\ inflight = {}
        /\ timer = 0
        /\ (op = "deploy" => deployed = "rejected")

\* the error scenario: "build failed" on the first poll
C4_Witness ==
    /\ firstTerminal = [attempt |-> 1, state |-> "error", message |-> "build failed"]
    /\ calls.poll = 1
    /\ result.kind = "error"

\* the create request failed: its error left the call, no poll was made
C5_CreateFailureAborts ==
    (op \in CreateOps /\ calls.create > 0 /\ pc = "done" /\ ~createOk) =>
        /\ result = Thrown(TransportError)
        /\ calls.poll = 0
        /\ (op = "deploy" => deployed = "rejected")

\* a step that answers a read with a failure goes on to the sleep
C5_ReadFailureSwallowed ==
    (pc = "awaitGet" /\ lastOutcome' = "fail") =>
        /\ pc' = "awaitSleep"
        /\ result' = Pending
        /\ timer' = retryIntervalMs

\* after the sleep that follows a failed read the next read is dispatched
C5_PollingContinues ==
    (pc = "awaitSleep" /\ lastOutcome = "fail" /\ retryIdx + 1 < maxRetries) =>
        /\ pc' = "awaitGet"
        /\ calls'.poll = calls.poll + 1

\* C5: a failure of the create request leaves createFunction as its error,
\* with no polling call made; a failure of a readiness read is swallowed:
\* the call goes on to the sleep with nothing thrown, and the next attempt
\* follows while the budget lasts.
C5_TransportFailures ==
    /\ []C5_CreateFailureAborts
    /\ [][C5_ReadFailureSwallowed]_vars
    /\ [][C5_PollingContinues]_vars

\* a read failed and the next read is in flight
C5_Witness ==
    /\ pc = "awaitGet"
    /\ lastOutcome = "fail"
    /\ calls.poll = 2

ValidationErrors == {NameMissingInInvoke, NameMissingInDelete}

\* C6: deleteProject, deleteFunction and invokeFunction without id.name fail
\* with a validation error and dispatch nothing; with id.name, the request
\* invokeFunction dispatched carries x-nuclio-function-name = id.name.
C6_NameRequiredAndSent ==
    /\ (op \in {"deleteProject", "deleteFunction", "invokeFunction"} /\ ~id.name.present) =>
         /\ result.kind = "error"
         /\ result.error \in ValidationErrors
         /\ calls = NoCalls
         /\ inflight = {}
    /\ (op = "invokeFunction" /\ id.name.present) =>
         \A r \in inflight :
            /\ HasKey(r.headers, "x-nuclio-function-name")
            /\ GetKey(r.headers, "x-nuclio-function-name") = id.name.s

\* C7: invokeFunction sends options.body as the body for post, put and
\* patch and no body for any other method; the assembled headers are the
\* request headers in both cases, never the body.
C7_BodyByMethod ==
    op = "invokeFunction" =>
        \A r \in inflight :
            /\ r.method \in {"post", "put", "patch"} => r.data = ValueData(options.body)
            /\ r.method \notin {"post", "put", "patch"} => r.data = NoData
            /\ r.data.kind # "config"
            /\ HasKey(r.headers, "x-nuclio-function-namespace")

\* the entries of a listing that are files other than yaml files
NonYaml(d) == {i \in 1..Len(d) : d[i].readable /\ getExtension(d[i].name) # "yaml"}

\* C8: deploy on a directory with zero or several non-yaml files fails and
\* never calls createFunction.
C8_FailsFastOnAmbiguousSource ==
    (op = "deploy" /\ Cardinality(NonYaml(dir)) # 1) =>
        /\ calls.create = 0
        /\ deployed = "rejected"

\* the labels a JSON text of a function configuration carries
RECURSIVE ParseLabels(_)
ParseLabels(json) ==
    IF json = <<>> THEN <<>>
    ELSE IF Len(Head(json)[1]) = 3 /\ Head(json)[1][1] = "metadata" /\ Head(json)[1][2] = "labels"
         THEN << <<Head(json)[1][3], Head(json)[2]>> >> \o ParseLabels(Tail(json))
         ELSE ParseLabels(Tail(json))

\* the pairs of an object other than key k, in order
RECURSIVE Without(_, _)
Without(pairs, k) ==
    IF pairs = <<>> THEN <<>>
    ELSE IF Head(pairs)[1] = k THEN Without(Tail(pairs), k)
    ELSE <<Head(pairs)>> \o Without(Tail(pairs), k)

\* labels hold the project label once, with value pn, the other labels
\* being those of `prior`
BoundTo(labels, pn, prior) ==
    /\ Cardinality({i \in 1..Len(labels) : labels[i][1] = ProjectNameLabel}) = 1
    /\ GetKey(labels, ProjectNameLabel) = pn
    /\ Without(labels, ProjectNameLabel) = Without(prior, ProjectNameLabel)

\* C9: from the create request on, whatever labels were passed, the
\* configuration sent and the configuration object have the project label
\* equal to projectName and every other label as it was.
C9_ProjectLabelBound ==
    (op \in CreateOps /\ calls.create > 0) =>
        /\ functionConfig.labels.present
        /\ BoundTo(functionConfig.labels.entries, projectName, passed.labels.entries)
        /\ \A r \in inflight :
              r.method = "post" =>
                 BoundTo(ParseLabels(r.data.json), projectName, passed.labels.entries)

\* the create request of a configuration labelled for another project
C9_Witness ==
    /\ pc = "awaitPost"
    /\ projectName = "p1"
    /\ HasKey(passed.labels.entries, ProjectNameLabel)
    /\ GetKey(passed.labels.entries, ProjectNameLabel) = "p2"
    /\ HasKey(passed.labels.entries, "app")

\* at most one request is outstanding, never together with the timer
C10_Sequential ==
    op \in CreateOps =>
        /\ Cardinality(inflight) <= 1
        /\ calls.poll <= maxRetries
        /\ (calls.poll > 0 => createOk)
        /\ (inflight # {} => timer = 0)
        /\ (pc = "awaitSleep" <=> timer = retryIntervalMs)

\* a step that dispatches a poll
C10_PollOnlyAfter ==
    calls'.poll # calls.poll =>
        /\ calls'.poll = calls.poll + 1
        /\ inflight' = {PollRequest(functionConfig)}
        /\ \/ pc = "awaitPost" /\ calls.poll = 0 /\ createOk'
           \/ pc = "awaitSleep" /\ inflight = {} /\ timer = retryIntervalMs /\ timer' = 0

\* a createFunction call that is suspended finishes
C10_Finishes == (pc \in {"awaitPost", "awaitGet", "awaitSleep"}) ~> (pc = "done")

\* C10: within one createFunction call at most one request is outstanding,
\* polls start only after the create request succeeded, a further poll is
\* dispatched only when the previous one was answered and the sleep after
\* it elapsed, polls never exceed 60, and the call finishes.
C10_NoOverlapBoundedAndFinishes ==
    /\ []C10_Sequential
    /\ [][C10_PollOnlyAfter]_vars
    /\ C10_Finishes

\* the budget is used up and the call has finished
C10_Witness ==
    /\ pc = "done"
    /\ calls.poll = maxRetries
    /\ retryIdx = maxRetries

====
